---- MODULE Spec2Model ----
(***************************************************************************)
(* Verification model of lsh_hdc/metrics.py: the sparse contingency table, *)
(* the pairwise co-association matrix of ClusteringMetrics with its lazy   *)
(* cache, the 2x2 ConfusionMatrix2 coefficients and the safe division      *)
(* primitive.                                                              *)
(*                                                                         *)
(* Python floats are modelled as exact values: a record of kind "num"      *)
(* holds a reduced fraction n/d, "sqrt" holds s*sqrt(n/d), "nan", "pinf"   *)
(* and "ninf" are the IEEE specials, and "raise" is a Python exception     *)
(* leaving the call.                                                       *)
(***************************************************************************)
EXTENDS Integers, Sequences, FiniteSets, TLC

VARIABLES labels_true, labels_pred, ct, _coassoc_, pc, op, local, fills, last,
          cm, cm_last, div_numer, div_denom, div_out, args, ret,
          union_find, hash_map, added

vars == <<labels_true, labels_pred, ct, _coassoc_, pc, op, local, fills, last,
          cm, cm_last, div_numer, div_denom, div_out, args, ret,
          union_find, hash_map, added>>

\* the instance state of the table, of the 2x2 matrix and of _div; the
\* arguments and the outcome of a module-level function call
table_vars == <<labels_true, labels_pred, ct, _coassoc_, pc, op, local, fills,
                last>>

cm_vars == <<cm, cm_last>>

div_vars == <<div_numer, div_denom, div_out>>

fn_vars == <<args, ret>>

\* a Cluster: its union-find structure, its LSH buckets, and the add_set
\* calls made on it so far
cluster_vars == <<union_find, hash_map, added>>

\* ------------------------------------------------------------------ bounds
MaxLen == 3
NumLabels == 2
MaxCount == 3
MaxDiv == 5

Labels == 1..NumLabels
Threads == {"t1", "t2"}

\* ------------------------------------------------------- exact arithmetic
None == [k |-> "none"]
NaN == [k |-> "nan"]
PINF == [k |-> "pinf"]
NINF == [k |-> "ninf"]
ZeroDivisionError == [k |-> "raise", exc |-> "ZeroDivisionError"]
AttributeError == [k |-> "raise", exc |-> "AttributeError"]

Abs(x) == IF x < 0 THEN -x ELSE x

Sign(x) == IF x > 0 THEN 1 ELSE IF x < 0 THEN -1 ELSE 0

RECURSIVE GCD(_, _)
GCD(a, b) == IF b = 0 THEN a ELSE GCD(b, a % b)

\* the fraction n/d (d # 0) in lowest terms with a positive denominator
Num(n, d) ==
    LET g == GCD(Abs(n), Abs(d))
        s == IF d < 0 THEN -1 ELSE 1
    IN  [k |-> "num", n |-> (s * n) \div g, d |-> (s * d) \div g]

Int2F(i) == Num(i, 1)

IsNum(x) == x.k = "num"

IsRaise(x) == "k" \in DOMAIN x /\ x.k = "raise"

FAdd(x, y) ==
    IF IsRaise(x) THEN x ELSE IF IsRaise(y) THEN y
    ELSE IF x.k = "nan" \/ y.k = "nan" THEN NaN
    ELSE IF IsNum(x) /\ IsNum(y) THEN Num(x.n * y.d + y.n * x.d, x.d * y.d)
    ELSE IF IsNum(x) THEN y
    ELSE IF IsNum(y) THEN x
    ELSE IF x.k = y.k THEN x ELSE NaN

FNeg(x) ==
    IF IsNum(x) THEN Num(-x.n, x.d)
    ELSE IF x.k = "pinf" THEN NINF
    ELSE IF x.k = "ninf" THEN PINF
    ELSE x

FSub(x, y) == FAdd(x, FNeg(y))

FMul(x, y) ==
    IF IsRaise(x) THEN x ELSE IF IsRaise(y) THEN y
    ELSE IF x.k = "nan" \/ y.k = "nan" THEN NaN
    ELSE IF IsNum(x) /\ IsNum(y) THEN Num(x.n * y.n, x.d * y.d)
    ELSE LET sx == IF IsNum(x) THEN Sign(x.n) ELSE IF x.k = "pinf" THEN 1 ELSE -1
             sy == IF IsNum(y) THEN Sign(y.n) ELSE IF y.k = "pinf" THEN 1 ELSE -1
         IN  IF sx * sy = 0 THEN NaN ELSE IF sx * sy > 0 THEN PINF ELSE NINF

\* Python's float "/" operator: a zero divisor raises ZeroDivisionError
PyTrueDiv(x, y) ==
    IF IsRaise(x) THEN x ELSE IF IsRaise(y) THEN y
    ELSE IF IsNum(y) /\ y.n = 0 THEN ZeroDivisionError
    ELSE IF x.k = "nan" \/ y.k = "nan" THEN NaN
    ELSE IF IsNum(x) /\ IsNum(y) THEN Num(x.n * y.d, x.d * y.n)
    ELSE IF IsNum(x) THEN Int2F(0)
    ELSE IF IsNum(y) THEN (IF (x.k = "pinf") = (y.n > 0) THEN PINF ELSE NINF)
    ELSE NaN

\* ------------------------------------------------------------ primitives
\* nchoose2 with the decrement forgotten
nchoose2_no_decrement(n) == (n * n) \div 2

nchoose2(n) == (n * (n - 1)) \div 2

RECURSIVE SumSet(_, _)
SumSet(S, f) ==
    IF S = {} THEN 0
    ELSE LET x == CHOOSE y \in S : TRUE IN f[x] + SumSet(S \ {x}, f)

\* sum of a function's values over its whole domain
SumF(f) == SumSet(DOMAIN f, f)

Min(a, b) == IF a <= b THEN a ELSE b

\* ------------------------------------------------- sparse RxC table
\* TableOfCounts.from_labels: one count per (row label, column label) pair
\* seen, margins and grand total accumulated alongside; only non-zero
\* cells are materialised.
from_labels(rows, cols) ==
    LET n == Min(Len(rows), Len(cols))
        idx == 1..n
        keys == {<<rows[i], cols[i]>> : i \in idx}
    IN  [rows |-> [key \in keys |->
                     Cardinality({i \in idx : <<rows[i], cols[i]>> = key})],
         row_totals |-> [r \in {rows[i] : i \in idx} |->
                           Cardinality({i \in idx : rows[i] = r})],
         col_totals |-> [c \in {cols[i] : i \in idx} |->
                           Cardinality({i \in idx : cols[i] = c})],
         grand_total |-> n]

\* TableOfCounts.from_partitions: cell (i, j) counts the items that block i of
\* the first partition shares with block j of the second
from_partitions(partition1, partition2) ==
    LET keys == {key \in (1..Len(partition1)) \X (1..Len(partition2)) :
                    partition1[key[1]] \cap partition2[key[2]] # {}}
    IN  [rows |-> [key \in keys |->
                     Cardinality(partition1[key[1]] \cap partition2[key[2]])],
         row_totals |-> [r \in {key[1] : key \in keys} |->
                           Cardinality(partition1[r])],
         col_totals |-> [c \in {key[2] : key \in keys} |->
                           Cardinality(partition2[c])],
         grand_total |-> Cardinality(UNION {partition1[i] \cap partition2[j] :
                             i \in 1..Len(partition1), j \in 1..Len(partition2)})]

iter_cells(t) == t.rows

\* iter_rows, iter_cols: per row (column) label, the counts of its cells
iter_rows(t) ==
    [r \in DOMAIN t.row_totals |->
        {t.rows[key] : key \in {x \in DOMAIN t.rows : x[1] = r}}]

iter_cols(t) ==
    [c \in DOMAIN t.col_totals |->
        {t.rows[key] : key \in {x \in DOMAIN t.rows : x[2] = c}}]

iter_row_totals(t) == t.row_totals

iter_col_totals(t) == t.col_totals

\* ------------------------------------------------- 2x2 confusion matrix
\* TableOfCounts.__init__(rows=...): a dense 2x2 table given by its rows,
\* margins derived from the cells.
TableOfCounts(rows) ==
    [rows |-> rows,
     row_totals |-> <<rows[1][1] + rows[1][2], rows[2][1] + rows[2][2]>>,
     col_totals |-> <<rows[1][1] + rows[2][1], rows[1][2] + rows[2][2]>>,
     grand_total |-> rows[1][1] + rows[1][2] + rows[2][1] + rows[2][2]]

ConfusionMatrix2(tp, fn, fp, tn) == TableOfCounts(<<<<tp, fn>>, <<fp, tn>>>>)

from_ccw(tp, fp, tn, fn) == ConfusionMatrix2(tp, fn, fp, tn)

TP(m) == m.rows[1][1]

\* FN reading the FP cell
FN_reads_FP(m) == m.rows[2][1]

FN(m) == m.rows[1][2]

\* FP reading the TN cell
FP_reads_TN(m) == m.rows[2][2]

FP(m) == m.rows[2][1]

TN(m) == m.rows[2][2]

\* to_ccw returns (TP, FP, TN, FN), unpacked by callers as a, c, d, b
to_ccw(m) == [a |-> TP(m), c |-> FP(m), d |-> TN(m), b |-> FN(m)]

covar(m) == TP(m) * TN(m) - FP(m) * FN(m)

\* ------------------------------------------------- safe division
\* _div with Python 2 integer division (no float conversion)
_div_truncating(numer, denom) ==
    IF IsNum(denom) /\ denom.n = 0
    THEN IF IsNum(numer) /\ numer.n = 0 THEN NaN
         ELSE IF (IsNum(numer) /\ numer.n > 0) \/ numer.k = "pinf" THEN PINF
         ELSE NINF
    ELSE Int2F((numer.n * denom.d) \div (numer.d * denom.n))

_div(numer, denom) ==
    IF IsNum(denom) /\ denom.n = 0
    THEN IF IsNum(numer) /\ numer.n = 0 THEN NaN
         ELSE IF (IsNum(numer) /\ numer.n > 0) \/ numer.k = "pinf" THEN PINF
         ELSE NINF
    ELSE IF numer.k = "nan" \/ denom.k = "nan" THEN NaN
    ELSE IF IsNum(numer) /\ IsNum(denom)
         THEN Num(numer.n * denom.d, numer.d * denom.n)
    ELSE IF IsNum(numer) THEN Int2F(0)
    ELSE IF IsNum(denom)
         THEN (IF (numer.k = "pinf") = (denom.n > 0) THEN PINF ELSE NINF)
    ELSE NaN

\* _div(numer, sqrt(radicand)) for an integer numerator and a non-negative
\* integer radicand: numer / sqrt(radicand) = sign(numer) * sqrt(numer^2 / radicand)
ISqrt(n) == CHOOSE r \in 0..n : r * r <= n /\ n < (r + 1) * (r + 1)

IsSquare(n) == ISqrt(n) * ISqrt(n) = n

_div_sqrt(numer, radicand) ==
    IF radicand = 0
    THEN _div(Int2F(numer), Int2F(0))
    ELSE LET q == Num(numer * numer, radicand)
         IN  IF IsSquare(q.n) /\ IsSquare(q.d)
             THEN Num(Sign(numer) * ISqrt(q.n), ISqrt(q.d))
             ELSE [k |-> "sqrt", s |-> Sign(numer), n |-> q.n, d |-> q.d]

\* ------------------------------------------------- co-association matrix
\* coassoc_ with FN left out of the TN remainder
coassoc_compute_tn_keeps_fn(t) ==
    LET rt == iter_row_totals(t)
        ctt == iter_col_totals(t)
        cells == iter_cells(t)
        actual_positives == SumF([b \in DOMAIN rt |-> nchoose2(rt[b])])
        called_positives == SumF([a \in DOMAIN ctt |-> nchoose2(ctt[a])])
        tp == SumF([cell \in DOMAIN cells |-> nchoose2(cells[cell])])
        fn == actual_positives - tp
        fp == called_positives - tp
        tn == nchoose2(t.grand_total) - tp - fp
    IN  from_ccw(tp, fp, tn, fn)

coassoc_compute(t) ==
    LET rt == iter_row_totals(t)
        ctt == iter_col_totals(t)
        cells == iter_cells(t)
        actual_positives == SumF([b \in DOMAIN rt |-> nchoose2(rt[b])])
        called_positives == SumF([a \in DOMAIN ctt |-> nchoose2(ctt[a])])
        tp == SumF([cell \in DOMAIN cells |-> nchoose2(cells[cell])])
        fn == actual_positives - tp
        fp == called_positives - tp
        tn == nchoose2(t.grand_total) - tp - fp - fn
    IN  from_ccw(tp, fp, tn, fn)

\* the emptiness test dropped: every access recomputes
NeedsFill_always(coassoc) == TRUE

\* line 435: the cache slot is filled only when it is found empty
NeedsFill(coassoc) == coassoc = None

\* ------------------------------------------------- 2x2 coefficients
\* jaccard_coeff with FN left out of the denominator
jaccard_coeff_without_fn(m) == _div(Int2F(TP(m)), Int2F(TP(m) + FP(m)))

jaccard_coeff(m) == _div(Int2F(TP(m)), Int2F(TP(m) + FP(m) + FN(m)))

dice_coeff(m) ==
    LET a == TP(m) IN _div(Int2F(2 * a), Int2F(2 * a + FN(m) + FP(m)))

ochiai_coeff(m) ==
    LET a == TP(m)
        b == FN(m)
        c == FP(m)
    IN  _div_sqrt(a, (a + b) * (a + c))

sokal_sneath_coeff(m) ==
    LET a == TP(m) IN _div(Int2F(a), Int2F(a + 2 * (FN(m) + FP(m))))

rogers_tanimoto_coeff(m) ==
    LET a_plus_d == TP(m) + TN(m)
    IN  _div(Int2F(a_plus_d), Int2F(a_plus_d + 2 * (FN(m) + FP(m))))

gower_legendre_coeff(m) ==
    LET a_plus_d == TP(m) + TN(m)
    IN  _div(Int2F(a_plus_d), FAdd(Int2F(a_plus_d), Num(FN(m) + FP(m), 2)))

\* kappa with the zero-margin test ahead of the single-cell test
kappa_margin_first(m) ==
    LET p1 == m.row_totals[1]
        q1 == m.row_totals[2]
        p2 == m.col_totals[1]
        q2 == m.col_totals[2]
        x == to_ccw(m)
        n == m.grand_total
    IN  IF p1 = 0 \/ p2 = 0 \/ q1 = 0 \/ q2 = 0
        THEN Int2F(0)
        ELSE IF x.a = n \/ x.b = n \/ x.c = n \/ x.d = n
        THEN NaN
        ELSE _div(Int2F(2 * covar(m)), Int2F(p1 * q2 + p2 * q1))

kappa(m) ==
    LET p1 == m.row_totals[1]
        q1 == m.row_totals[2]
        p2 == m.col_totals[1]
        q2 == m.col_totals[2]
        x == to_ccw(m)
        n == m.grand_total
    IN  IF x.a = n \/ x.b = n \/ x.c = n \/ x.d = n
        THEN NaN
        ELSE IF p1 = 0 \/ p2 = 0 \/ q1 = 0 \/ q2 = 0
        THEN Int2F(0)
        ELSE _div(Int2F(2 * covar(m)), Int2F(p1 * q2 + p2 * q1))

\* matthews_corr without the zero-margin override
matthews_corr_no_override(m) ==
    LET p1 == m.row_totals[1]
        q1 == m.row_totals[2]
        p2 == m.col_totals[1]
        q2 == m.col_totals[2]
        x == to_ccw(m)
        n == m.grand_total
    IN  IF x.a = n \/ x.b = n \/ x.c = n \/ x.d = n
        THEN NaN
        ELSE _div_sqrt(covar(m), p1 * q1 * p2 * q2)

matthews_corr(m) ==
    LET p1 == m.row_totals[1]
        q1 == m.row_totals[2]
        p2 == m.col_totals[1]
        q2 == m.col_totals[2]
        x == to_ccw(m)
        n == m.grand_total
    IN  IF x.a = n \/ x.b = n \/ x.c = n \/ x.d = n
        THEN NaN
        ELSE IF p1 = 0 \/ p2 = 0 \/ q1 = 0 \/ q2 = 0
        THEN Int2F(0)
        ELSE _div_sqrt(covar(m), p1 * q1 * p2 * q2)

\* ------------------------------------------------- rates and their corrections
PPV(m) == _div(Int2F(TP(m)), Int2F(TP(m) + FP(m)))

NPV(m) == _div(Int2F(TN(m)), Int2F(TN(m) + FN(m)))

TPR(m) == _div(Int2F(TP(m)), Int2F(TP(m) + FN(m)))

FPR(m) == _div(Int2F(FP(m)), Int2F(TN(m) + FP(m)))

\* informedness normalised by the column margins
informedness_by_columns(m) ==
    LET p1 == m.col_totals[1]
        q1 == m.col_totals[2]
    IN  _div(Int2F(covar(m)), Int2F(p1 * q1))

\* lines 842-843
informedness(m) ==
    LET p1 == m.row_totals[1]
        q1 == m.row_totals[2]
    IN  _div(Int2F(covar(m)), Int2F(p1 * q1))

\* lines 853-854
markedness(m) ==
    LET p2 == m.col_totals[1]
        q2 == m.col_totals[2]
    IN  _div(Int2F(covar(m)), Int2F(p2 * q2))

\* the coefficient normalised by the larger of the two products
loevinger_coeff_by_max(m) ==
    LET p1 == m.row_totals[1]
        q1 == m.row_totals[2]
        p2 == m.col_totals[1]
        q2 == m.col_totals[2]
    IN  _div(Int2F(covar(m)),
             Int2F(IF p1 * q2 >= p2 * q1 THEN p1 * q2 ELSE p2 * q1))

\* lines 910-912
loevinger_coeff(m) ==
    LET p1 == m.row_totals[1]
        q1 == m.row_totals[2]
        p2 == m.col_totals[1]
        q2 == m.col_totals[2]
    IN  _div(Int2F(covar(m)), Int2F(Min(p1 * q2, p2 * q1)))

\* ------------------------------------------------- entropies
\* A sum of terms c*ln(k) is kept exactly as the function k |-> c over the
\* integers k >= 2 with a non-zero coefficient; the empty function is 0.0.
LGet(u, k) == IF k \in DOMAIN u THEN u[k] ELSE 0

LAdd(u, v) ==
    [k \in {j \in DOMAIN u \cup DOMAIN v : LGet(u, j) + LGet(v, j) # 0} |->
        LGet(u, k) + LGet(v, k)]

LNeg(u) == [k \in DOMAIN u |-> -u[k]]

LSub(u, v) == LAdd(u, LNeg(v))

\* n*ln(n) - sum of c*ln(c) over the non-zero counts c, 0.0 when n = 0
centropy(counts) ==
    LET nz == {x \in DOMAIN counts : counts[x] # 0}
        n == SumSet(nz, counts)
        coef(k) == (IF k = n THEN n ELSE 0)
                   - k * Cardinality({x \in nz : counts[x] = k})
    IN  [k \in {j \in 2..n : coef(j) # 0} |-> coef(k)]

_entropies(t) ==
    LET H_C == centropy(t.row_totals)
        H_K == centropy(t.col_totals)
        H_actual == centropy(iter_cells(t))
        H_expected == LAdd(H_C, H_K)
        I_CK == LSub(H_expected, H_actual)
    IN  [H_C |-> H_C, H_K |-> H_K, I_CK |-> I_CK]

\* I_CK / grand_total with Python's "/": a zero divisor raises
LogDiv(u, n) ==
    IF n = 0 THEN ZeroDivisionError
    ELSE [k |-> "logs", coef |-> u, lnbase |-> 0, d |-> n]

\* VI_CK / (ln(base) * grand_total): the divisor is 0.0 when grand_total is 0
\* or ln(base) is 0
LogDivBase(u, base, n) ==
    IF n = 0 \/ base = 1 THEN ZeroDivisionError
    ELSE [k |-> "logs", coef |-> u, lnbase |-> base, d |-> n]

vi_distance(t, base) ==
    LET e == _entropies(t)
        VI_CK == LAdd(LSub(e.H_C, e.I_CK), LSub(e.H_K, e.I_CK))
    IN  LogDivBase(VI_CK, base, t.grand_total)

mutual_info_score(t) == LogDiv(_entropies(t).I_CK, t.grand_total)

\* ------------------------------------------------- chance correction
PnQn_over_nsq(t, coassoc) ==
    LET n == t.grand_total
        P == 2 * (TP(coassoc) + FN(coassoc))
        Q == 2 * (TP(coassoc) + FP(coassoc))
    IN  PyTrueDiv(Int2F((P + n) * (Q + n)), Int2F(n * n))

\* adjusted = (coeff - expected) / (1.0 - expected), expected = numer / denom
chance_adjusted(coeff, numer, denom) ==
    LET expected == PyTrueDiv(numer, denom)
    IN  PyTrueDiv(FSub(coeff, expected), FSub(Int2F(1), expected))

adjusted_jaccard_coeff(t, coassoc) ==
    LET n == t.grand_total
        P == 2 * (TP(coassoc) + FN(coassoc))
        Q == 2 * (TP(coassoc) + FP(coassoc))
        X == PnQn_over_nsq(t, coassoc)
        numer == FSub(X, Int2F(n))
        denom == FSub(Int2F(P + Q + n), X)
    IN  chance_adjusted(jaccard_coeff(coassoc), numer, denom)

adjusted_sokal_sneath_coeff(t, coassoc) ==
    LET n == t.grand_total
        P == 2 * (TP(coassoc) + FN(coassoc))
        Q == 2 * (TP(coassoc) + FP(coassoc))
        X == PnQn_over_nsq(t, coassoc)
        numer == FSub(X, Int2F(n))
        denom == FSub(Int2F(2 * (P + Q + 2 * n) - n), FMul(Int2F(3), X))
    IN  chance_adjusted(sokal_sneath_coeff(coassoc), numer, denom)

adjusted_rogers_tanimoto_coeff(t, coassoc) ==
    LET n == t.grand_total
        P == 2 * (TP(coassoc) + FN(coassoc))
        Q == 2 * (TP(coassoc) + FP(coassoc))
        X == PnQn_over_nsq(t, coassoc)
        nn1 == n * (n - 1)
        PQ2n == P + Q + 2 * n
        numer == FAdd(FMul(Int2F(2), X), Int2F(nn1 - PQ2n))
        denom == FSub(Int2F(PQ2n + nn1), FMul(Int2F(2), X))
    IN  chance_adjusted(rogers_tanimoto_coeff(coassoc), numer, denom)

adjusted_gower_legendre_coeff(t, coassoc) ==
    LET n == t.grand_total
        P == 2 * (TP(coassoc) + FN(coassoc))
        Q == 2 * (TP(coassoc) + FP(coassoc))
        X == PnQn_over_nsq(t, coassoc)
        nn1 == n * (n - 1)
        PQ2n == P + Q + 2 * n
        numer == FAdd(FMul(Int2F(2), X), Int2F(nn1 - PQ2n))
        denom == FSub(FAdd(X, Int2F(nn1)), Num(PQ2n, 2))
    IN  chance_adjusted(gower_legendre_coeff(coassoc), numer, denom)

\* ------------------------------------------------- split-join distance
\* max(x) of a non-empty collection of counts
Max(S) == CHOOSE x \in S : \A y \in S : y <= x

\* the distance with the grand total counted once
split_join_distance_single_total(t) ==
    LET pa_B == SumF([r \in DOMAIN iter_rows(t) |-> Max(iter_rows(t)[r])])
        pb_A == SumF([c \in DOMAIN iter_cols(t) |-> Max(iter_cols(t)[c])])
    IN  Int2F(t.grand_total - pa_B - pb_A)

\* lines 298-300
split_join_distance(t) ==
    LET pa_B == SumF([r \in DOMAIN iter_rows(t) |-> Max(iter_rows(t)[r])])
        pb_A == SumF([c \in DOMAIN iter_cols(t) |-> Max(iter_cols(t)[c])])
    IN  Int2F(2 * t.grand_total - pa_B - pb_A)

\* ------------------------------------------------- adjusted Rand index
\* the score taken from matthews_corr instead of kappa
adjusted_rand_score_by_matthews(rows, cols) ==
    matthews_corr(coassoc_compute(from_labels(rows, cols)))

\* lines 1166-1167: a new ClusteringMetrics and kappa of its coassoc_
adjusted_rand_score(rows, cols) ==
    kappa(coassoc_compute(from_labels(rows, cols)))

\* ------------------------------------------------- metric dispatch
AdjustedNames == {"adjusted_jaccard_coeff", "adjusted_sokal_sneath_coeff",
                  "adjusted_rogers_tanimoto_coeff",
                  "adjusted_gower_legendre_coeff"}

\* attributes that getattr finds on a ClusteringMetrics instance
TableNames == {"chisq_score", "vi_distance", "split_join_distance",
               "talburt_wang_index", "mutual_info_score", "g_score",
               "entropy_metrics", "coassoc_", "get_score"} \cup AdjustedNames

\* get_score going to the coassoc_ matrix without asking the table
get_score_target_matrix_only(scoring_method) ==
    [on |-> "coassoc_", m |-> scoring_method]

\* get_score: the table's own attribute first, the coassoc_ matrix's otherwise
get_score_target(scoring_method) ==
    IF scoring_method \in TableNames
    THEN [on |-> "self", m |-> scoring_method]
    ELSE [on |-> "coassoc_", m |-> scoring_method]

TableMethod(name, t, coassoc) ==
    CASE name = "mutual_info_score" -> mutual_info_score(t)
      [] name = "split_join_distance" -> split_join_distance(t)
      [] name = "vi_distance" -> vi_distance(t, 2)
      [] name = "adjusted_jaccard_coeff" -> adjusted_jaccard_coeff(t, coassoc)
      [] name = "adjusted_sokal_sneath_coeff" ->
             adjusted_sokal_sneath_coeff(t, coassoc)
      [] name = "adjusted_rogers_tanimoto_coeff" ->
             adjusted_rogers_tanimoto_coeff(t, coassoc)
      [] name = "adjusted_gower_legendre_coeff" ->
             adjusted_gower_legendre_coeff(t, coassoc)

\* a 2x2 matrix read as the table of its non-zero cells
as_table(m) ==
    LET cells == {key \in {1, 2} \X {1, 2} : m.rows[key[1]][key[2]] # 0}
    IN  [rows |-> [key \in cells |-> m.rows[key[1]][key[2]]],
         row_totals |-> [r \in {key[1] : key \in cells} |-> m.row_totals[r]],
         col_totals |-> [c \in {key[2] : key \in cells} |-> m.col_totals[c]],
         grand_total |-> m.grand_total]

\* the coefficients of ConfusionMatrix2 that are evaluated here
MatrixNames == {"kappa", "matthews_corr", "jaccard_coeff", "dice_coeff",
                "ochiai_coeff", "sokal_sneath_coeff", "rogers_tanimoto_coeff",
                "gower_legendre_coeff", "loevinger_coeff", "informedness",
                "markedness", "mutual_info_score", "split_join_distance"}

\* attributes that getattr finds on a ConfusionMatrix2 instance
MatrixAttrs ==
    MatrixNames \cup
    {"chisq_score", "vi_distance", "split_join_distance", "talburt_wang_index",
     "mutual_info_score", "g_score", "entropy_metrics", "get_score",
     "to_array", "to_rows", "to_ccw", "from_rows", "from_array", "from_sets",
     "from_cols", "from_random_counts", "from_ccw", "TP", "FN", "FP", "TN",
     "ACC", "PPV", "NPV", "TPR", "FPR", "TNR", "FNR", "FDR", "FOR", "PLL",
     "NLL", "DOR", "fscore", "prevalence_index", "bias_index", "informedness",
     "markedness", "kappa0", "kappa1", "loevinger_coeff", "mp_corr",
     "mi_corr1", "mi_corr0", "mi_corr", "yule_q", "yule_y", "covar",
     "precision", "recall", "fallout", "accuracy", "sensitivity",
     "specificity", "hit_rate", "miss_rate", "sm_coeff", "phi_coeff",
     "rand_index", "adjusted_rand_index", "fowlkes_mallows"}

\* a name that no class defines
UnknownName == "no_such_metric"

\* the attribute lookup answering an unknown name with a default score
MatrixMethod_default_nan(name, m) ==
    IF name \notin MatrixAttrs THEN NaN
    ELSE CASE name = "kappa" -> kappa(m)
           [] name = "matthews_corr" -> matthews_corr(m)
           [] name = "jaccard_coeff" -> jaccard_coeff(m)
           [] name = "dice_coeff" -> dice_coeff(m)
           [] name = "ochiai_coeff" -> ochiai_coeff(m)
           [] name = "sokal_sneath_coeff" -> sokal_sneath_coeff(m)
           [] name = "rogers_tanimoto_coeff" -> rogers_tanimoto_coeff(m)
           [] name = "gower_legendre_coeff" -> gower_legendre_coeff(m)
           [] name = "loevinger_coeff" -> loevinger_coeff(m)
           [] name = "informedness" -> informedness(m)
           [] name = "markedness" -> markedness(m)
           [] name = "mutual_info_score" -> mutual_info_score(as_table(m))
           [] name = "split_join_distance" -> split_join_distance(as_table(m))

\* getattr(matrix, name)(): AttributeError when the name is not an attribute
MatrixMethod(name, m) ==
    IF name \notin MatrixAttrs THEN AttributeError
    ELSE CASE name = "kappa" -> kappa(m)
           [] name = "matthews_corr" -> matthews_corr(m)
           [] name = "jaccard_coeff" -> jaccard_coeff(m)
           [] name = "dice_coeff" -> dice_coeff(m)
           [] name = "ochiai_coeff" -> ochiai_coeff(m)
           [] name = "sokal_sneath_coeff" -> sokal_sneath_coeff(m)
           [] name = "rogers_tanimoto_coeff" -> rogers_tanimoto_coeff(m)
           [] name = "gower_legendre_coeff" -> gower_legendre_coeff(m)
           [] name = "loevinger_coeff" -> loevinger_coeff(m)
           [] name = "informedness" -> informedness(m)
           [] name = "markedness" -> markedness(m)
           [] name = "mutual_info_score" -> mutual_info_score(as_table(m))
           [] name = "split_join_distance" -> split_join_distance(as_table(m))

\* the calls a client makes on a ClusteringMetrics instance, and
\* adjusted_rand_score called on the labels the instance was built from
DirectMethods == {"coassoc_", "mutual_info_score", "vi_distance",
                  "split_join_distance", "adjusted_rand_score"}
                 \cup AdjustedNames

ScoreNames == {"mutual_info_score", "split_join_distance", "kappa",
               "jaccard_coeff", UnknownName}

Calls == [m : DirectMethods, arg : {"-"}] \cup [m : {"get_score"}, arg : ScoreNames]

NoCall == [m |-> "-", arg |-> "-"]

\* the method a call ends up running
Target(call) ==
    IF call.m = "get_score" THEN get_score_target(call.arg)
    ELSE [on |-> "self", m |-> call.m]

ReadsCoassoc(call) ==
    \/ Target(call).on = "coassoc_"
    \/ Target(call).m \in AdjustedNames \cup {"coassoc_"}

Result(call, t, coassoc) ==
    LET tg == Target(call)
    IN  IF tg.m = "coassoc_" THEN [k |-> "matrix"]
        ELSE IF tg.m = "adjusted_rand_score"
        THEN adjusted_rand_score(labels_true, labels_pred)
        ELSE IF tg.on = "self" THEN TableMethod(tg.m, t, coassoc)
        ELSE MatrixMethod(tg.m, coassoc)

\* ------------------------------------------------- ClusteringMetrics instance
LabelSeqs(n) == [1..n -> Labels]

NoResult == [call |-> NoCall, val |-> None, coassoc |-> None]

IdleCM == cm = None /\ cm_last = None

IdleDiv == div_numer = 0 /\ div_denom = 0 /\ div_out = None

IdleFn == args = None /\ ret = None

IdleCluster == union_find = {} /\ hash_map = <<>> /\ added = <<>>

\* the docstring example of split_join_distance, and the labels of its items
SplitJoinP1 == <<{1, 2, 3, 4}, {5, 6, 7}, {8, 9, 10, 11, 12}>>

SplitJoinP2 == <<{2, 4, 6, 8, 10}, {3, 9, 12}, {1, 5, 7}, {11}>>

BlockOf(partition, x) == CHOOSE i \in 1..Len(partition) : x \in partition[i]

LabelsOf(partition) ==
    [x \in UNION {partition[i] : i \in 1..Len(partition)} |->
        BlockOf(partition, x)]

\* the docstring example of adjusted_rand_score
AriClasses == <<1, 1, 2, 2, 2, 2, 3, 3, 3, 3>>

AriClusters == <<1, 2, 1, 2, 2, 3, 3, 3, 3, 3>>

\* a new instance over a given table, cache slot empty (line 416)
FreshInstance ==
    /\ _coassoc_ = None
    /\ pc = [t \in Threads |-> "idle"]
    /\ op = [t \in Threads |-> NoCall]
    /\ local = [t \in Threads |-> None]
    /\ fills = 0
    /\ last = NoResult
    /\ IdleCM
    /\ IdleDiv
    /\ IdleFn
    /\ IdleCluster

\* a ClusteringMetrics built by from_labels
NewClusteringMetrics(maxlen) ==
    /\ \E n \in 0..maxlen :
         /\ labels_true \in LabelSeqs(n)
         /\ labels_pred \in LabelSeqs(n)
    /\ ct = from_labels(labels_true, labels_pred)
    /\ FreshInstance

\* the instances of the two docstring examples
ExampleClusteringMetrics ==
    /\ \/ /\ labels_true = LabelsOf(SplitJoinP1)
          /\ labels_pred = LabelsOf(SplitJoinP2)
          /\ ct = from_partitions(SplitJoinP1, SplitJoinP2)
       \/ /\ labels_true = AriClasses
          /\ labels_pred = AriClusters
          /\ ct = from_labels(labels_true, labels_pred)
    /\ FreshInstance

Init == NewClusteringMetrics(MaxLen) \/ ExampleClusteringMetrics

\* a metric that never touches coassoc_: one read-only evaluation
CallTable(t, call) ==
    /\ pc[t] = "idle"
    /\ ~ReadsCoassoc(call)
    /\ last' = [call |-> call, val |-> Result(call, ct, None), coassoc |-> None]
    /\ UNCHANGED <<labels_true, labels_pred, ct, _coassoc_, pc, op, local,
                   fills, cm, cm_last, div_numer, div_denom, div_out>>
    /\ UNCHANGED fn_vars
    /\ UNCHANGED cluster_vars

\* a call that reads the coassoc_ property; the previous call's outcome is
\* gone once a new call starts
CallCoassoc(t, call) ==
    /\ pc[t] = "idle"
    /\ ReadsCoassoc(call)
    /\ pc' = [pc EXCEPT ![t] = "L434"]
    /\ op' = [op EXCEPT ![t] = call]
    /\ last' = NoResult
    /\ UNCHANGED <<labels_true, labels_pred, ct, _coassoc_, local, fills,
                   cm, cm_last, div_numer, div_denom, div_out>>
    /\ UNCHANGED fn_vars
    /\ UNCHANGED cluster_vars

\* line 434: coassoc = self._coassoc_
L434(t) ==
    /\ pc[t] = "L434"
    /\ local' = [local EXCEPT ![t] = _coassoc_]
    /\ pc' = [pc EXCEPT ![t] = "L435"]
    /\ UNCHANGED <<labels_true, labels_pred, ct, _coassoc_, op, fills, last,
                   cm, cm_last, div_numer, div_denom, div_out>>
    /\ UNCHANGED fn_vars
    /\ UNCHANGED cluster_vars

\* lines 435-441: if coassoc is None, compute the four counts
L435(t) ==
    /\ pc[t] = "L435"
    /\ IF NeedsFill(local[t])
       THEN /\ local' = [local EXCEPT ![t] = coassoc_compute(ct)]
            /\ pc' = [pc EXCEPT ![t] = "L442"]
       ELSE /\ pc' = [pc EXCEPT ![t] = "L443"]
            /\ UNCHANGED local
    /\ UNCHANGED <<labels_true, labels_pred, ct, _coassoc_, op, fills, last,
                   cm, cm_last, div_numer, div_denom, div_out>>
    /\ UNCHANGED fn_vars
    /\ UNCHANGED cluster_vars

\* line 442: coassoc = self._coassoc_ = ConfusionMatrix2.from_ccw(...)
L442(t) ==
    /\ pc[t] = "L442"
    /\ _coassoc_' = local[t]
    /\ fills' = fills + 1
    /\ pc' = [pc EXCEPT ![t] = "L443"]
    /\ UNCHANGED <<labels_true, labels_pred, ct, op, local, last,
                   cm, cm_last, div_numer, div_denom, div_out>>
    /\ UNCHANGED fn_vars
    /\ UNCHANGED cluster_vars

\* the return that also empties the cache slot
L443_clears_slot(t) ==
    /\ pc[t] = "L443"
    /\ last' = [call |-> op[t], val |-> Result(op[t], ct, local[t]),
                coassoc |-> None]
    /\ pc' = [pc EXCEPT ![t] = "idle"]
    /\ op' = [op EXCEPT ![t] = NoCall]
    /\ local' = [local EXCEPT ![t] = None]
    /\ _coassoc_' = None
    /\ UNCHANGED <<labels_true, labels_pred, ct, fills,
                   cm, cm_last, div_numer, div_denom, div_out>>
    /\ UNCHANGED fn_vars
    /\ UNCHANGED cluster_vars

\* line 443: return coassoc; the caller finishes its own computation
L443(t) ==
    /\ pc[t] = "L443"
    /\ last' = [call |-> op[t], val |-> Result(op[t], ct, local[t]),
                coassoc |-> local[t]]
    /\ pc' = [pc EXCEPT ![t] = "idle"]
    /\ op' = [op EXCEPT ![t] = NoCall]
    /\ local' = [local EXCEPT ![t] = None]
    /\ UNCHANGED <<labels_true, labels_pred, ct, _coassoc_, fills,
                   cm, cm_last, div_numer, div_denom, div_out>>
    /\ UNCHANGED fn_vars
    /\ UNCHANGED cluster_vars

Step(t) == L434(t) \/ L435(t) \/ L442(t) \/ L443(t)

\* any number of threads use the instance at once
Next ==
    \E t \in Threads :
        \/ \E call \in Calls : CallTable(t, call)
        \/ \E call \in Calls : CallCoassoc(t, call)
        \/ Step(t)

Spec == Init /\ [][Next]_vars

\* sequential use: a call starts only when no other call is in progress
AllIdle == \A t \in Threads : pc[t] = "idle"

NextSeq ==
    \E t \in Threads :
        \/ \E call \in Calls : AllIdle /\ CallTable(t, call)
        \/ \E call \in Calls : AllIdle /\ CallCoassoc(t, call)
        \/ Step(t)

SpecSeq == Init /\ [][NextSeq]_vars

\* ------------------------------------------------- ConfusionMatrix2 instance
IdleTable ==
    /\ labels_true = <<>>
    /\ labels_pred = <<>>
    /\ ct = from_labels(<<>>, <<>>)
    /\ _coassoc_ = None
    /\ pc = [t \in Threads |-> "idle"]
    /\ op = [t \in Threads |-> NoCall]
    /\ local = [t \in Threads |-> None]
    /\ fills = 0
    /\ last = NoResult

\* a ConfusionMatrix2 built from four non-negative counts
InitCM ==
    /\ \E tp, fn, fp, tn \in 0..MaxCount : cm = ConfusionMatrix2(tp, fn, fp, tn)
    /\ cm_last = None
    /\ IdleTable
    /\ IdleDiv
    /\ IdleFn
    /\ IdleCluster

\* one coefficient evaluated on the matrix
CallMatrix(name) ==
    /\ cm_last' = [k |-> "score", m |-> name, val |-> MatrixMethod(name, cm)]
    /\ UNCHANGED <<labels_true, labels_pred, ct, _coassoc_, pc, op, local,
                   fills, last, cm, div_numer, div_denom, div_out>>
    /\ UNCHANGED fn_vars
    /\ UNCHANGED cluster_vars

NextCM == \E name \in MatrixNames \cup {UnknownName} : CallMatrix(name)

SpecCM == InitCM /\ [][NextCM]_vars

\* ------------------------------------------------- _div on integer arguments
InitDiv ==
    /\ div_numer \in -MaxDiv..MaxDiv
    /\ div_denom \in -MaxDiv..MaxDiv
    /\ div_out = None
    /\ IdleTable
    /\ IdleCM
    /\ IdleFn
    /\ IdleCluster

Call_div ==
    /\ div_out' = _div(Int2F(div_numer), Int2F(div_denom))
    /\ UNCHANGED <<labels_true, labels_pred, ct, _coassoc_, pc, op, local,
                   fills, last, cm, cm_last, div_numer, div_denom>>
    /\ UNCHANGED fn_vars
    /\ UNCHANGED cluster_vars

NextDiv == Call_div

SpecDiv == InitDiv /\ [][NextDiv]_vars

\* ------------------------------------------------- construction
MaxNeg == 1
NumElems == 3
MaxUniverse == 4

ValueError == [k |-> "raise", exc |-> "ValueError"]

Counts == (-MaxNeg)..MaxCount

Elems == 1..NumElems

\* what a call hands back: the returned value, or the exception raised
Returned(v) == IF IsRaise(v) THEN v ELSE [k |-> "returned", v |-> v]

\* an integer passed where None is also allowed
PyInt(i) == [k |-> "int", v |-> i]

AllLabelSeqs(maxlen) == UNION {LabelSeqs(n) : n \in 0..maxlen}

\* from_sets building the matrix without looking at the sign of TN
from_sets_unchecked(set1, set2, universe_size) ==
    LET tp == Cardinality(set1 \cap set2)
        fp == Cardinality(set2) - tp
        fn == Cardinality(set1) - tp
        tn == IF universe_size = None THEN 0
              ELSE universe_size.v - tp - fp - fn
    IN  ConfusionMatrix2(tp, fn, fp, tn)

from_sets(set1, set2, universe_size) ==
    LET tp == Cardinality(set1 \cap set2)
        fp == Cardinality(set2) - tp
        fn == Cardinality(set1) - tp
        tn == IF universe_size = None THEN 0
              ELSE universe_size.v - tp - fp - fn
    IN  IF universe_size # None /\ tn < 0 THEN ValueError
        ELSE ConfusionMatrix2(tp, fn, fp, tn)

\* the module-level mutual_info_score(labels_true, labels_pred)
mutual_info_score_of_labels(rows, cols) == mutual_info_score(from_labels(rows, cols))

\* the constructor calls a client can make, malformed ones included
NewCalls ==
    [f : {"ConfusionMatrix2", "from_ccw"}, a : Counts \X Counts \X Counts \X Counts]
    \cup [f : {"mutual_info_score"},
          a : AllLabelSeqs(MaxLen) \X AllLabelSeqs(MaxLen)]
    \cup [f : {"from_sets"},
          a : (SUBSET Elems) \X (SUBSET Elems) \X ({None} \cup {PyInt(u) : u \in 0..MaxUniverse})]

InitNew ==
    /\ args \in NewCalls
    /\ ret = None
    /\ IdleTable
    /\ IdleCM
    /\ IdleDiv
    /\ IdleCluster

\* ConfusionMatrix2(TP, FN, FP, TN)
CallConfusionMatrix2 ==
    /\ args.f = "ConfusionMatrix2"
    /\ ret = None
    /\ ret' = Returned(ConfusionMatrix2(args.a[1], args.a[2], args.a[3],
                                        args.a[4]))
    /\ UNCHANGED <<args, table_vars, cm_vars, div_vars, cluster_vars>>

\* ConfusionMatrix2.from_ccw(TP, FP, TN, FN)
Call_from_ccw ==
    /\ args.f = "from_ccw"
    /\ ret = None
    /\ ret' = Returned(from_ccw(args.a[1], args.a[2], args.a[3], args.a[4]))
    /\ UNCHANGED <<args, table_vars, cm_vars, div_vars, cluster_vars>>

\* mutual_info_score(labels_true, labels_pred): builds the table, scores it
Call_mutual_info_score ==
    /\ args.f = "mutual_info_score"
    /\ ret = None
    /\ ret' = Returned(mutual_info_score_of_labels(args.a[1], args.a[2]))
    /\ UNCHANGED <<args, table_vars, cm_vars, div_vars, cluster_vars>>

\* ConfusionMatrix2.from_sets(set1, set2, universe_size)
Call_from_sets ==
    /\ args.f = "from_sets"
    /\ ret = None
    /\ ret' = Returned(from_sets(args.a[1], args.a[2], args.a[3]))
    /\ UNCHANGED <<args, table_vars, cm_vars, div_vars, cluster_vars>>

NextNew ==
    \/ CallConfusionMatrix2
    \/ Call_from_ccw
    \/ Call_mutual_info_score
    \/ Call_from_sets

SpecNew == InitNew /\ [][NextNew]_vars

\* ------------------------------------------------- clustering_aul_score
MaxClusters == 3
MaxClusterSize == 2

AssertionError == [k |-> "raise", exc |-> "AssertionError"]

RECURSIVE SumSeq(_)
SumSeq(s) == IF s = <<>> THEN 0 ELSE Head(s) + SumSeq(Tail(s))

\* a cluster is the sequence of its points, a point is what is_pos says of it
Clusters == UNION {[1..n -> BOOLEAN] : n \in 0..MaxClusterSize}

ClusterLists == UNION {[1..n -> Clusters] : n \in 0..MaxClusters}

\* line 1355: (len(cluster), number of positive points) per cluster
sortable(clusters) ==
    [i \in 1..Len(clusters) |->
        <<Len(clusters[i]),
          Cardinality({j \in 1..Len(clusters[i]) : clusters[i][j]})>>]

\* one tuple put in its place in a list already sorted by descending size,
\* after every tuple of the same size (the sort is stable)
RECURSIVE insert_by_size(_, _)
insert_by_size(x, s) ==
    IF s = <<>> THEN <<x>>
    ELSE IF Head(s)[1] >= x[1] THEN <<Head(s)>> \o insert_by_size(x, Tail(s))
    ELSE <<x>> \o s

\* the list left in the order of the input
sorted_by_size_not_sorted(s) == s

\* line 1357: sorted(sortable, key=itemgetter(0), reverse=True)
RECURSIVE sorted_by_size(_)
sorted_by_size(s) ==
    IF s = <<>> THEN <<>>
    ELSE insert_by_size(s[Len(s)], sorted_by_size(SubSeq(s, 1, Len(s) - 1)))

\* aggregate_tuples: consecutive tuples with the same first member become
\* one (first member, list of second members) group
RECURSIVE aggregate_tuples(_)
aggregate_tuples(s) ==
    IF s = <<>> THEN <<>>
    ELSE LET rest == aggregate_tuples(Tail(s))
         IN  IF rest # <<>> /\ rest[1][1] = Head(s)[1]
             THEN <<<<Head(s)[1], <<Head(s)[2]>> \o rest[1][2]>>>> \o Tail(rest)
             ELSE <<<<Head(s)[1], <<Head(s)[2]>>>>>> \o rest

\* lines 1365-1374, first pass
RECURSIVE total_pos(_)
total_pos(data) ==
    IF data = <<>> THEN 0
    ELSE SumSeq(Head(data)[2]) + total_pos(Tail(data))

\* the group counted as its number of clusters
total_in_group_counts_clusters(cluster_size, num_clusters) == num_clusters

\* line 1368: the number of points in a group of equal-sized clusters
total_in_group(cluster_size, num_clusters) == cluster_size * num_clusters

RECURSIVE max_horizontal(_)
max_horizontal(data) ==
    IF data = <<>> THEN 0
    ELSE total_in_group(Head(data)[1], Len(Head(data)[2]))
         + max_horizontal(Tail(data))

\* the vertical extent of a group as its number of positives, whatever the
\* cluster size
group_vertical_positives_only(cluster_size, pos_counts) == SumSeq(pos_counts)

\* lines 1371-1374: what one group of equal-sized clusters adds to max_vertical
group_vertical(cluster_size, pos_counts) ==
    IF cluster_size > 1 THEN total_in_group(cluster_size, Len(pos_counts))
    ELSE SumSeq(pos_counts)

RECURSIVE max_vertical(_)
max_vertical(data) ==
    IF data = <<>> THEN 0
    ELSE group_vertical(Head(data)[1], Head(data)[2]) + max_vertical(Tail(data))

\* one bin whose area is added before the step is raised
add_bin_area_first(cluster_size, avg_pos_count, acc) ==
    LET bin_width == cluster_size
    IN  [bin_height |-> FAdd(acc.bin_height, avg_pos_count),
         bin_right_edge |-> acc.bin_right_edge + bin_width,
         aul_score |-> FAdd(acc.aul_score,
                            FMul(acc.bin_height, Int2F(bin_width)))]

\* lines 1395-1399: one bin of the step function
add_bin(cluster_size, avg_pos_count, acc) ==
    LET bin_width == cluster_size
        bin_height == FAdd(acc.bin_height, avg_pos_count)
    IN  [bin_height |-> bin_height,
         bin_right_edge |-> acc.bin_right_edge + bin_width,
         aul_score |-> FAdd(acc.aul_score, FMul(bin_height, Int2F(bin_width)))]

\* line 1391, the inner loop over one group: n bins left to add
RECURSIVE aul_group(_, _, _, _)
aul_group(n, cluster_size, avg_pos_count, acc) ==
    IF n = 0 THEN acc
    ELSE aul_group(n - 1, cluster_size, avg_pos_count,
                   add_bin(cluster_size, avg_pos_count, acc))

\* lines 1388-1399, second pass
RECURSIVE second_pass(_, _)
second_pass(data, acc) ==
    IF data = <<>> THEN acc
    ELSE LET cluster_size == Head(data)[1]
             pos_counts == Head(data)[2]
             avg_pos_count == PyTrueDiv(Int2F(SumSeq(pos_counts)),
                                        Int2F(Len(pos_counts)))
         IN  second_pass(Tail(data),
                         aul_group(Len(pos_counts), cluster_size,
                                   avg_pos_count, acc))

\* the score normalised by the vertical extent alone
clustering_aul_score_by_max_vertical(clusters) ==
    LET data == aggregate_tuples(sorted_by_size(sortable(clusters)))
        acc == second_pass(data, [bin_height |-> Int2F(0), bin_right_edge |-> 0,
                                  aul_score |-> Int2F(0)])
    IN  IF ~(max_horizontal(data) >= total_pos(data)) THEN AssertionError
        ELSE IF max_vertical(data) = 0 THEN NaN
        ELSE IF ~(max_horizontal(data) = acc.bin_right_edge) THEN AssertionError
        ELSE PyTrueDiv(acc.aul_score, Int2F(max_vertical(data)))

clustering_aul_score(clusters) ==
    LET data == aggregate_tuples(sorted_by_size(sortable(clusters)))
        acc == second_pass(data, [bin_height |-> Int2F(0), bin_right_edge |-> 0,
                                  aul_score |-> Int2F(0)])
    IN  IF ~(max_horizontal(data) >= total_pos(data)) THEN AssertionError
        ELSE IF max_vertical(data) = 0 THEN NaN
        ELSE IF ~(max_horizontal(data) = acc.bin_right_edge) THEN AssertionError
        ELSE PyTrueDiv(acc.aul_score,
                       Int2F(max_vertical(data) * max_horizontal(data)))

InitAul ==
    /\ args \in [f : {"clustering_aul_score"}, a : ClusterLists]
    /\ ret = None
    /\ IdleTable
    /\ IdleCM
    /\ IdleDiv
    /\ IdleCluster

Call_clustering_aul_score ==
    /\ args.f = "clustering_aul_score"
    /\ ret = None
    /\ ret' = Returned(clustering_aul_score(args.a))
    /\ UNCHANGED <<args, table_vars, cm_vars, div_vars, cluster_vars>>

NextAul == Call_clustering_aul_score

SpecAul == InitAul /\ [][NextAul]_vars

\* ------------------------------------------------- RocCurve
MaxPoints == 3
RocGrid == 2

\* rates are multiples of 1/RocGrid between 0 and 1
Rates == {Num(i, RocGrid) : i \in 0..RocGrid}

RocPoints == Rates \X Rates

\* index > max_index on floats and minus infinity
FGreater(x, y) ==
    IF x.k = "nan" \/ y.k = "nan" THEN FALSE
    ELSE IF y.k = "ninf" THEN x.k # "ninf"
    ELSE IF x.k = "ninf" THEN FALSE
    ELSE IF x.k = "pinf" THEN y.k # "pinf"
    ELSE IF y.k = "pinf" THEN FALSE
    ELSE x.n * y.d > y.n * x.d

\* the index computed with the two rates exchanged
_informedness_swapped(fpr, tpr) == FSub(fpr, tpr)

\* lines 1278-1280
_informedness(fpr, tpr) == FSub(tpr, fpr)

\* lines 1271-1275: the loop over izip(self.fprs, self.tprs), from pair i on
RECURSIVE optimal_cutoff_loop(_, _, _)
optimal_cutoff_loop(pairs, i, best) ==
    IF i > Len(pairs) THEN best
    ELSE LET pair == pairs[i]
             index == _informedness(pair[1], pair[2])
         IN  IF FGreater(index, best.max_index)
             THEN optimal_cutoff_loop(pairs, i + 1,
                                      [opt_pair |-> pair, max_index |-> index])
             ELSE optimal_cutoff_loop(pairs, i + 1, best)

\* optimal_cutoff(self._informedness): returns (opt_pair, max_index)
optimal_cutoff(pairs) ==
    optimal_cutoff_loop(pairs, 1, [opt_pair |-> <<NaN, NaN>>, max_index |-> NINF])

\* max_informedness: member [1] of what optimal_cutoff returns
max_informedness(pairs) == optimal_cutoff(pairs).max_index

\* a RocCurve holding up to MaxPoints (fpr, tpr) pairs, and the method called
InitRoc ==
    /\ args \in [f : {"optimal_cutoff", "max_informedness"},
                 a : UNION {[1..n -> RocPoints] : n \in 0..MaxPoints}]
    /\ ret = None
    /\ IdleTable
    /\ IdleCM
    /\ IdleDiv
    /\ IdleCluster

Call_optimal_cutoff ==
    /\ args.f = "optimal_cutoff"
    /\ ret = None
    /\ ret' = Returned(optimal_cutoff(args.a))
    /\ UNCHANGED <<args, table_vars, cm_vars, div_vars, cluster_vars>>

Call_max_informedness ==
    /\ args.f = "max_informedness"
    /\ ret = None
    /\ ret' = Returned(max_informedness(args.a))
    /\ UNCHANGED <<args, table_vars, cm_vars, div_vars, cluster_vars>>

NextRoc == Call_optimal_cutoff \/ Call_max_informedness

SpecRoc == InitRoc /\ [][NextRoc]_vars

\* ------------------------------------------------- weighted means
MaxMean == 2
MaxRatio == 2

\* weight ratios: non-negative fractions and infinity, held exactly
Ratios == {Num(i, j) : i \in 0..MaxRatio, j \in 1..MaxRatio} \cup {PINF}

\* lines 182-189
ratio2weights(ratio) ==
    LET lweight == IF ~FGreater(ratio, Int2F(1))
                   THEN PyTrueDiv(ratio, FAdd(Int2F(1), ratio))
                   ELSE PyTrueDiv(Int2F(1),
                                  FAdd(Int2F(1), PyTrueDiv(Int2F(1), ratio)))
    IN  [lweight |-> lweight, rweight |-> FSub(Int2F(1), lweight)]

\* copysign(1, x) of an integer: zero counts as positive
copysign1(x) == IF x < 0 THEN -1 ELSE 1

\* the weighted geometric mean computed without comparing the signs
geometric_mean_weighted_no_sign_check(x, y, ratio) ==
    LET w == ratio2weights(ratio)
        lsign == copysign1(x)
    IN  [k |-> "product", sign |-> lsign,
         left |-> [base |-> Abs(x), exponent |-> w.rweight],
         right |-> [base |-> Abs(y), exponent |-> w.lweight]]

\* lines 204-219; the value lsign * abs(x)**rweight * abs(y)**lweight is kept
\* as the product it is written as
geometric_mean_weighted(x, y, ratio) ==
    LET w == ratio2weights(ratio)
        lsign == copysign1(x)
        rsign == copysign1(y)
    IN  IF lsign # rsign /\ x # y THEN ValueError
        ELSE [k |-> "product", sign |-> lsign,
              left |-> [base |-> Abs(x), exponent |-> w.rweight],
              right |-> [base |-> Abs(y), exponent |-> w.lweight]]

\* lines 228-239
harmonic_mean_weighted(x, y, ratio) ==
    LET w == ratio2weights(ratio)
    IN  IF x = y THEN Int2F(x)
        ELSE PyTrueDiv(Int2F(x * y),
                       FAdd(FMul(w.lweight, Int2F(x)), FMul(w.rweight, Int2F(y))))

InitMean ==
    /\ args \in [f : {"geometric_mean_weighted", "harmonic_mean_weighted"},
                 a : (-MaxMean..MaxMean) \X (-MaxMean..MaxMean) \X Ratios]
    /\ ret = None
    /\ IdleTable
    /\ IdleCM
    /\ IdleDiv
    /\ IdleCluster

Call_geometric_mean_weighted ==
    /\ args.f = "geometric_mean_weighted"
    /\ ret = None
    /\ ret' = Returned(geometric_mean_weighted(args.a[1], args.a[2], args.a[3]))
    /\ UNCHANGED <<args, table_vars, cm_vars, div_vars, cluster_vars>>

Call_harmonic_mean_weighted ==
    /\ args.f = "harmonic_mean_weighted"
    /\ ret = None
    /\ ret' = Returned(harmonic_mean_weighted(args.a[1], args.a[2], args.a[3]))
    /\ UNCHANGED <<args, table_vars, cm_vars, div_vars, cluster_vars>>

NextMean == Call_geometric_mean_weighted \/ Call_harmonic_mean_weighted

SpecMean == InitMean /\ [][NextMean]_vars

\* ------------------------------------------------- clusters_to_labels
MaxLabelClusters == 2
NumClasses == 1

\* a point is the string "<class>:<n>" of a positive, or a bare number
Points == [k : {"pos"}, label : 1..NumClasses] \cup {[k |-> "neg"]}

PointClusters == UNION {[1..n -> Points] : n \in 0..MaxClusterSize}

PointClusterLists == UNION {[1..n -> PointClusters] : n \in 0..MaxLabelClusters}

\* ':' in point
class_is_positive(point) == point.k = "pos"

\* len(cluster) > 1
cluster_is_positive(cluster) == Len(cluster) > 1

\* lines 251-261; int(label) of the text before the colon
point_to_class_label(point_idx, point, neg_label) ==
    IF class_is_positive(point) THEN point.label
    ELSE IF neg_label = None THEN -point_idx
    ELSE neg_label.v

\* lines 264-273
cluster_to_cluster_label(cluster_idx, cluster, neg_label) ==
    IF cluster_is_positive(cluster) THEN cluster_idx
    ELSE IF neg_label = None THEN -cluster_idx
    ELSE neg_label.v

\* the point appended without advancing point_idx
emit_point_keeps_idx(acc, cluster_label, point, double_negs, neg_label) ==
    LET class_label == point_to_class_label(acc.point_idx, point, neg_label)
    IN  IF double_negs \/ (class_label > 0 \/ cluster_label > 0)
        THEN [labels_true |-> Append(acc.labels_true, class_label),
              labels_pred |-> Append(acc.labels_pred, cluster_label),
              point_idx |-> acc.point_idx]
        ELSE acc

\* lines 306-310: one point of the inner loop
emit_point(acc, cluster_label, point, double_negs, neg_label) ==
    LET class_label == point_to_class_label(acc.point_idx, point, neg_label)
    IN  IF double_negs \/ (class_label > 0 \/ cluster_label > 0)
        THEN [labels_true |-> Append(acc.labels_true, class_label),
              labels_pred |-> Append(acc.labels_pred, cluster_label),
              point_idx |-> acc.point_idx + 1]
        ELSE acc

\* line 303: for point in cluster, from point j on
RECURSIVE emit_cluster(_, _, _, _, _, _)
emit_cluster(acc, cluster_label, cluster, j, double_negs, neg_label) ==
    IF j > Len(cluster) THEN acc
    ELSE emit_cluster(emit_point(acc, cluster_label, cluster[j], double_negs,
                                 neg_label),
                      cluster_label, cluster, j + 1, double_negs, neg_label)

\* line 301: for cluster_idx, cluster in enumerate(cluster_iter, start=1)
RECURSIVE emit_clusters(_, _, _, _, _)
emit_clusters(acc, cluster_iter, cluster_idx, double_negs, neg_label) ==
    IF cluster_idx > Len(cluster_iter) THEN acc
    ELSE LET cluster == cluster_iter[cluster_idx]
             cluster_label == cluster_to_cluster_label(cluster_idx, cluster,
                                                       neg_label)
         IN  emit_clusters(emit_cluster(acc, cluster_label, cluster, 1,
                                        double_negs, neg_label),
                           cluster_iter, cluster_idx + 1, double_negs, neg_label)

\* lines 276-311: returns (labels_true, labels_pred)
clusters_to_labels(cluster_iter, double_negs, join_negs) ==
    LET neg_label == IF join_negs THEN PyInt(0) ELSE None
        acc == emit_clusters([labels_true |-> <<>>, labels_pred |-> <<>>,
                              point_idx |-> 1],
                             cluster_iter, 1, double_negs, neg_label)
    IN  [labels_true |-> acc.labels_true, labels_pred |-> acc.labels_pred]

InitLabels ==
    /\ args \in [f : {"clusters_to_labels"},
                 a : PointClusterLists \X BOOLEAN \X BOOLEAN]
    /\ ret = None
    /\ IdleTable
    /\ IdleCM
    /\ IdleDiv
    /\ IdleCluster

Call_clusters_to_labels ==
    /\ args.f = "clusters_to_labels"
    /\ ret = None
    /\ ret' = Returned(clusters_to_labels(args.a[1], args.a[2], args.a[3]))
    /\ UNCHANGED <<args, table_vars, cm_vars, div_vars, cluster_vars>>

NextLabels == Call_clusters_to_labels

SpecLabels == InitLabels /\ [][NextLabels]_vars

\* ===================================================== lsh.cluster.Cluster
\* Cluster with signer = None and the default sketch_sim_fn (always True).
\* A call add_set(s, label) passes a set of keys s and either no label (None)
\* or an integer label; clusters_from_iter passes label = i, from 0 on.
NumKeys == 2
MaxLabel == 1
MaxAdds == 3

Keys == 1..NumKeys

KeySets == SUBSET Keys

\* labels a caller can supply: none, or an integer index
SuppliedLabels == {None} \cup {PyInt(i) : i \in 0..MaxLabel}

\* the set s standing as a label
SetLabel(s) == [k |-> "set", v |-> s]

\* Python truth value of a label: None and 0 are falsy
truthy(label) == label # None /\ label # PyInt(0)

\* the label under which add_set registers the item
effective_label(s, label) == IF ~truthy(label) THEN SetLabel(s) ELSE label

\* UnionFind, as the partition of the items it has seen
uf_items(uf) == UNION uf

uf_getitem(uf, x) == IF x \in uf_items(uf) THEN uf ELSE uf \cup {{x}}

\* all of xs end in one set
uf_union(uf, xs) ==
    LET seen == UNION {IF x \in uf_items(uf) THEN {} ELSE {{x}} : x \in xs}
        all == uf \cup seen
        hit == {b \in all : b \cap xs # {}}
    IN  IF xs = {} THEN uf ELSE (all \ hit) \cup {UNION hit}

uf_sets(uf) == uf

\* the bucket of key k, an empty list when the key was never seen
bucket(hm, k) == IF k \in DOMAIN hm THEN hm[k] ELSE <<>>

\* what one pass of the loop body does to one bucket
visit_bucket(label_list, label) ==
    IF label_list # <<>>
    THEN IF label # label_list[1].label
         THEN Append(label_list, [label |-> label, sketch |-> None])
         ELSE label_list
    ELSE <<[label |-> label, sketch |-> None]>>

\* the first labels the loop unions the new label with
union_partners_own_label(hm, s, label) ==
    {bucket(hm, k)[1].label : k \in {j \in s : /\ bucket(hm, j) # <<>>
                                               /\ label = bucket(hm, j)[1].label}}

union_partners(hm, s, label) ==
    {bucket(hm, k)[1].label : k \in {j \in s : /\ bucket(hm, j) # <<>>
                                               /\ label # bucket(hm, j)[1].label}}

add_set_uf(uf, hm, s, label) ==
    LET partners == union_partners(hm, s, label)
    IN  IF partners = {} THEN uf_getitem(uf, label)
        ELSE uf_union(uf_getitem(uf, label), partners \cup {label})

add_set_hash_map(hm, s, label) ==
    [k \in DOMAIN hm \cup s |->
        IF k \in s THEN visit_bucket(bucket(hm, k), label) ELSE hm[k]]

get_clusters == uf_sets(union_find)

InitCluster ==
    /\ union_find = {}
    /\ hash_map = <<>>
    /\ added = <<>>
    /\ IdleTable
    /\ IdleCM
    /\ IdleDiv
    /\ IdleFn

add_set(s, label) ==
    /\ Len(added) < MaxAdds
    /\ LET lbl == effective_label(s, label)
       IN  /\ union_find' = add_set_uf(union_find, hash_map, s, lbl)
           /\ hash_map' = add_set_hash_map(hash_map, s, lbl)
           /\ added' = Append(added, [s |-> s, label |-> label, registered |-> lbl])
    /\ UNCHANGED <<table_vars, cm_vars, div_vars, fn_vars>>

NextCluster == \E s \in KeySets, label \in SuppliedLabels : add_set(s, label)

SpecCluster == InitCluster /\ [][NextCluster]_vars

\* ========================================================= properties

\* the matrices a client can hold: the cache slot, a thread's local copy,
\* the matrix the last finished call worked on
Matrices == ({_coassoc_, last.coassoc} \cup {local[t] : t \in Threads}) \ {None}

Pairs == {p \in (1..Len(labels_true)) \X (1..Len(labels_true)) : p[1] < p[2]}

SameRow(p) == labels_true[p[1]] = labels_true[p[2]]

SameCol(p) == labels_pred[p[1]] = labels_pred[p[2]]

\* C1: every co-association matrix equals the result of enumerating all
\* unordered item pairs: TP pairs share row and column label, FN pairs share
\* only the row label, FP pairs only the column label, TN pairs neither.
C1_CoassocCountsPairs ==
    \A m \in Matrices :
        /\ TP(m) = Cardinality({p \in Pairs : SameRow(p) /\ SameCol(p)})
        /\ FN(m) = Cardinality({p \in Pairs : SameRow(p) /\ ~SameCol(p)})
        /\ FP(m) = Cardinality({p \in Pairs : ~SameRow(p) /\ SameCol(p)})
        /\ TN(m) = Cardinality({p \in Pairs : ~SameRow(p) /\ ~SameCol(p)})

\* a filled slot whose pairs fall into three different quadrants
C1_Witness ==
    /\ _coassoc_ # None
    /\ FN(_coassoc_) > 0 /\ FP(_coassoc_) > 0 /\ TN(_coassoc_) > 0

\* C2: the four quadrants of every co-association matrix sum to the number
\* of unordered item pairs, grand_total * (grand_total - 1) / 2.
C2_QuadrantsSumToPairs ==
    \A m \in Matrices :
        2 * (TP(m) + FP(m) + TN(m) + FN(m))
            = ct.grand_total * (ct.grand_total - 1)

C2_Witness ==
    /\ _coassoc_ # None
    /\ ct.grand_total >= 3
    /\ TP(_coassoc_) > 0
    /\ TN(_coassoc_) > 0

\* C3: in the table built from label pairs and in every ConfusionMatrix2
\* built from four counts the grand total equals the sum of the row totals
\* and the sum of the column totals, and TP+FN+FP+TN equals the grand total.
C3_TotalsAgree ==
    /\ ct.grand_total = SumF(ct.row_totals)
    /\ ct.grand_total = SumF(ct.col_totals)
    /\ \A m \in Matrices :
        /\ m.grand_total = SumF(m.row_totals)
        /\ m.grand_total = SumF(m.col_totals)
        /\ TP(m) + FN(m) + FP(m) + TN(m) = m.grand_total

C3_Witness ==
    /\ _coassoc_ # None
    /\ Cardinality(DOMAIN ct.row_totals) > 1
    /\ TP(_coassoc_) > 0
    /\ FN(_coassoc_) # FP(_coassoc_)
    /\ _coassoc_.grand_total = ct.grand_total

\* C4: under concurrent reads of coassoc_ the cache slot is assigned at
\* most once.
C4_FilledAtMostOnce == fills <= 1

\* C5: in sequential use the matrix is computed on the first access only:
\* once the slot is filled it is never assigned again, and every access
\* returns the matrix held in the slot.
C5_ComputedOnce ==
    [][/\ fills' <= 1
       /\ (_coassoc_ # None => (_coassoc_' = _coassoc_ /\ fills' = fills))
       /\ (last'.coassoc # None => last'.coassoc = _coassoc_')]_vars

\* a later access, through get_score, has read the filled slot at line 434
\* and is about to skip the computation
C5_Witness ==
    /\ fills = 1
    /\ _coassoc_ # None
    /\ \E t \in Threads :
        /\ pc[t] = "L435"
        /\ op[t].m = "get_score"
        /\ local[t] = _coassoc_

\* ------------------------------------------------- _div
\* C6: _div never raises; a zero denominator gives NaN, +infinity or
\* -infinity by the sign of the numerator, a non-zero denominator gives the
\* exact quotient with no integer truncation.
C6_DivConvention ==
    div_out # None =>
        /\ ~IsRaise(div_out)
        /\ (div_denom = 0 /\ div_numer = 0) => div_out = NaN
        /\ (div_denom = 0 /\ div_numer > 0) => div_out = PINF
        /\ (div_denom = 0 /\ div_numer < 0) => div_out = NINF
        /\ div_denom # 0 =>
            /\ IsNum(div_out)
            /\ div_out.n * div_denom = div_numer * div_out.d

\* _div(1, 2) has returned 0.5
C6_Witness ==
    /\ div_numer = 1
    /\ div_denom = 2
    /\ div_out = [k |-> "num", n |-> 1, d |-> 2]

\* ------------------------------------------------- kappa, matthews_corr
Called(names) == cm_last # None /\ cm_last.m \in names

\* at most one cell of the matrix is non-zero
SingleCell(m) ==
    Cardinality({x \in {<<1, 1>>, <<1, 2>>, <<2, 1>>, <<2, 2>>} :
                    m.rows[x[1]][x[2]] # 0}) <= 1

Margins(m) == <<TP(m) + FN(m), FP(m) + TN(m), TP(m) + FP(m), FN(m) + TN(m)>>

ZeroMargins(m) == {i \in 1..4 : Margins(m)[i] = 0}

ExactlyOneMarginZero(m) == Cardinality(ZeroMargins(m)) = 1

\* C7: when a single cell holds the whole grand total, kappa and
\* matthews_corr return NaN, although a margin is zero.
C7_SingleCellIsNaN ==
    (Called({"kappa", "matthews_corr"}) /\ SingleCell(cm)) => cm_last.val = NaN

C7_Witness ==
    /\ Called({"kappa"})
    /\ TN(cm) = MaxCount /\ cm.grand_total = MaxCount
    /\ ZeroMargins(cm) # {}
    /\ cm_last.val = NaN

\* 2*covar/(p1*q2 + p2*q1) and covar/sqrt(p1*q1*p2*q2) for non-zero margins
KappaFormula(m) ==
    LET a == TP(m)
        b == FN(m)
        c == FP(m)
        d == TN(m)
    IN  Num(2 * (a * d - c * b), (a + b) * (b + d) + (a + c) * (c + d))

MatthewsFormula(m) ==
    LET a == TP(m)
        b == FN(m)
        c == FP(m)
        d == TN(m)
        cov == a * d - c * b
        q == Num(cov * cov, (a + b) * (c + d) * (a + c) * (b + d))
    IN  IF IsSquare(q.n) /\ IsSquare(q.d)
        THEN Num(Sign(cov) * ISqrt(q.n), ISqrt(q.d))
        ELSE [k |-> "sqrt", s |-> Sign(cov), n |-> q.n, d |-> q.d]

Formula(name, m) ==
    IF name = "kappa" THEN KappaFormula(m) ELSE MatthewsFormula(m)

\* C8 as stated: 0.0 is returned exactly when exactly one margin is zero,
\* every other non-degenerate table gets the closed formula.
C8_ZeroExactlyWhenOneMarginZero ==
    Called({"kappa", "matthews_corr"}) =>
        /\ (cm_last.val = Int2F(0)) <=> ExactlyOneMarginZero(cm)
        /\ (~SingleCell(cm) /\ ~ExactlyOneMarginZero(cm)) =>
               cm_last.val = Formula(cm_last.m, cm)

\* C8 amended: 0.0 is returned whenever exactly one margin is zero, every
\* other non-degenerate table gets the closed formula (which is itself 0.0
\* when covar is 0).
C8_ZeroWhenOneMarginZero ==
    Called({"kappa", "matthews_corr"}) =>
        /\ ExactlyOneMarginZero(cm) => cm_last.val = Int2F(0)
        /\ (~SingleCell(cm) /\ ~ExactlyOneMarginZero(cm)) =>
               cm_last.val = Formula(cm_last.m, cm)

C8_Witness ==
    /\ Called({"matthews_corr"})
    /\ ExactlyOneMarginZero(cm)
    /\ TP(cm) = 0 /\ FN(cm) = 0 /\ FP(cm) > 0 /\ TN(cm) > 0
    /\ cm_last.val = Int2F(0)

\* C9: jaccard_coeff, dice_coeff, ochiai_coeff, kappa and matthews_corr
\* give the same result on a table and on its transpose.
Transposed(m) == ConfusionMatrix2(TP(m), FP(m), FN(m), TN(m))

SymmetricNames == {"jaccard_coeff", "dice_coeff", "ochiai_coeff", "kappa",
                   "matthews_corr"}

C9_TransposeInvariant ==
    Called(SymmetricNames) =>
        cm_last.val = MatrixMethod(cm_last.m, Transposed(cm))

C9_Witness ==
    /\ Called({"ochiai_coeff"})
    /\ FN(cm) > FP(cm) /\ FP(cm) > 0 /\ TP(cm) > 0
    /\ cm_last.val.k = "sqrt"

\* ------------------------------------------------- zero denominators
\* C10: no metric call ends in a raised division error.
C10_NoMetricRaises == last.val # ZeroDivisionError

\* ------------------------------------------------------------------ C11
Malformed ==
    \/ /\ args.f \in {"ConfusionMatrix2", "from_ccw"}
       /\ \E i \in 1..4 : args.a[i] < 0
    \/ /\ args.f = "mutual_info_score"
       /\ Len(args.a[1]) # Len(args.a[2])

\* C11: a table built from two label sequences of different lengths, or a
\* ConfusionMatrix2 built (by the constructor or by from_ccw) from a negative
\* count, is never accepted: the construction ends in an error.
C11_MalformedInputRejected == (ret # None /\ Malformed) => IsRaise(ret)

\* ------------------------------------------------------------------ C12
\* C12: from_sets raises and builds no matrix when universe_size is smaller
\* than the union of the two sets; otherwise TP, FN, FP are the sizes of the
\* intersection and of the two differences and TN is universe_size minus the
\* size of the union (0 when universe_size is omitted), never negative.
C12_FromSets ==
    (args.f = "from_sets" /\ ret # None) =>
        LET set1 == args.a[1]
            set2 == args.a[2]
            universe_size == args.a[3]
            union == Cardinality(set1 \cup set2)
        IN  IF universe_size # None /\ universe_size.v < union
            THEN IsRaise(ret)
            ELSE /\ ~IsRaise(ret)
                 /\ TP(ret.v) = Cardinality(set1 \cap set2)
                 /\ FN(ret.v) = Cardinality(set1 \ set2)
                 /\ FP(ret.v) = Cardinality(set2 \ set1)
                 /\ TN(ret.v) = (IF universe_size = None THEN 0
                                 ELSE universe_size.v - union)
                 /\ TN(ret.v) >= 0

C12_Witness ==
    /\ args.f = "from_sets"
    /\ ret # None
    /\ ~IsRaise(ret)
    /\ args.a[3] # None
    /\ TP(ret.v) > 0 /\ FN(ret.v) > 0 /\ FP(ret.v) > 0 /\ TN(ret.v) > 0

AulCalled == args.f = "clustering_aul_score" /\ ret # None

Sizes == {Len(args.a[i]) : i \in 1..Len(args.a)}

NoPositive == \A i \in 1..Len(args.a) : \A j \in 1..Len(args.a[i]) : ~args.a[i][j]

\* C14 as stated: clustering_aul_score returns NaN for every input in which
\* no point of any cluster is positive, whatever the cluster sizes.
C14_NaNWhenNoPositive == (AulCalled /\ NoPositive) => ret = Returned(NaN)

\* C14: clustering_aul_score returns NaN for every input in which no point
\* is positive and no cluster has more than one point; when no point is
\* positive and some cluster has more than one point it returns 0.0.
C14_NaNWhenNoPositiveAndNoLargeCluster ==
    (AulCalled /\ NoPositive) =>
        IF \A s \in Sizes : s <= 1 THEN ret = Returned(NaN)
        ELSE ret = Returned(Int2F(0))

C14_Witness ==
    /\ AulCalled
    /\ NoPositive
    /\ Len(args.a) > 1
    /\ Sizes = {1}
    /\ ret = Returned(NaN)

\* ------------------------------------------------------------------ C15
\* C15: a single cluster of any size >= 1 whose points are all positive
\* scores exactly 1.0.
C15_SinglePositiveClusterIsOne ==
    (/\ AulCalled
     /\ Len(args.a) = 1
     /\ Len(args.a[1]) >= 1
     /\ \A j \in 1..Len(args.a[1]) : args.a[1][j])
        => ret = Returned(Int2F(1))

C15_Witness ==
    /\ AulCalled
    /\ Len(args.a) = 1
    /\ Len(args.a[1]) > 1
    /\ \A j \in 1..Len(args.a[1]) : args.a[1][j]
    /\ ret = Returned(Int2F(1))

\* ------------------------------------------------------------------ C16
RECURSIVE SumFrac(_, _)
SumFrac(S, f) ==
    IF S = {} THEN Int2F(0)
    ELSE LET x == CHOOSE y \in S : TRUE IN FAdd(f[x], SumFrac(S \ {x}, f))

\* the score written cluster by cluster: each cluster stands for the mean
\* positive count of the clusters of its size, larger sizes come first
MeanSweepScore(clusters) ==
    LET idx == 1..Len(clusters)
        size == [i \in idx |-> Len(clusters[i])]
        pos == [i \in idx |-> Cardinality({j \in 1..size[i] : clusters[i][j]})]
        group == [i \in idx |-> {j \in idx : size[j] = size[i]}]
        mean == [i \in idx |-> Num(SumSet(group[i], pos), Cardinality(group[i]))]
        \* clusters swept before cluster i, itself included
        upto == [i \in idx |->
                    {j \in idx : size[j] > size[i] \/ (size[j] = size[i] /\ j <= i)}]
        height == [i \in idx |-> SumFrac(upto[i], mean)]
        area == [i \in idx |-> FMul(height[i], Int2F(size[i]))]
        horizontal == SumSet(idx, size)
        vertical == SumSet(idx, [i \in idx |-> IF size[i] > 1 THEN size[i]
                                               ELSE pos[i]])
    IN  IF vertical = 0 THEN NaN
        ELSE PyTrueDiv(SumFrac(idx, area), Int2F(vertical * horizontal))

Orders(n) ==
    {p \in [1..n -> 1..n] : \A i, j \in 1..n : p[i] = p[j] => i = j}

Permuted(s, p) == [i \in 1..Len(s) |-> s[p[i]]]

\* C16: every cluster contributes the mean positive count of all clusters of
\* its own size, the size groups being swept in descending size; so the score
\* is the same for every permutation of the input clusters.
C16_MeanPerSizeAndOrderFree ==
    AulCalled =>
        /\ ret = Returned(MeanSweepScore(args.a))
        /\ \A p \in Orders(Len(args.a)) :
               Returned(clustering_aul_score(Permuted(args.a, p))) = ret

\* two clusters of one size with different positive counts around a larger one
C16_Witness ==
    /\ AulCalled
    /\ Len(args.a) = 3
    /\ Len(args.a[1]) = 1 /\ Len(args.a[2]) = 2 /\ Len(args.a[3]) = 1
    /\ args.a[1][1] /\ ~args.a[3][1]
    /\ args.a[2][1]
    /\ IsNum(ret.v)

\* ------------------------------------------------------------------ C17
\* tpr - fpr of a point, in units of 1/RocGrid
Youden(pair) == (pair[2].n * RocGrid) \div pair[2].d - (pair[1].n * RocGrid) \div pair[1].d

\* pair maximizes tpr - fpr over the curve and v is that maximum
MaximizesYouden(pair, v) ==
    /\ \E i \in 1..Len(args.a) : args.a[i] = pair
    /\ \A i \in 1..Len(args.a) : Youden(args.a[i]) <= Youden(pair)
    /\ v = Num(Youden(pair), RocGrid)

\* C17 as stated: max_informedness() scans all (fpr, tpr) points and returns
\* both the point that maximizes tpr - fpr and that maximal value.
C17_ReturnsPointAndValue ==
    (args.f = "max_informedness" /\ ret # None /\ Len(args.a) > 0) =>
        /\ "opt_pair" \in DOMAIN ret.v
        /\ "max_index" \in DOMAIN ret.v
        /\ MaximizesYouden(ret.v.opt_pair, ret.v.max_index)

\* C17: max_informedness() scans all (fpr, tpr) points and returns the maximal
\* value of tpr - fpr alone; the point that attains it is returned together
\* with that value by optimal_cutoff.
C17_ReturnsMaxValue ==
    /\ (args.f = "max_informedness" /\ ret # None /\ Len(args.a) > 0) =>
           \E i \in 1..Len(args.a) : MaximizesYouden(args.a[i], ret.v)
    /\ (args.f = "optimal_cutoff" /\ ret # None /\ Len(args.a) > 0) =>
           MaximizesYouden(ret.v.opt_pair, ret.v.max_index)
    /\ (args.f = "max_informedness" /\ ret # None /\ Len(args.a) = 0) =>
           ret.v = NINF

\* the maximum is attained by a later point of the curve only
C17_Witness ==
    /\ args.f = "max_informedness"
    /\ ret # None
    /\ Len(args.a) = 3
    /\ Youden(args.a[1]) < Youden(args.a[3])
    /\ Youden(args.a[3]) < Youden(args.a[2])
    /\ ret.v = Num(Youden(args.a[2]), RocGrid)

\* ------------------------------------------------------------------ C18
MeanCalled ==
    args.f \in {"geometric_mean_weighted", "harmonic_mean_weighted"} /\ ret # None

\* one argument positive and the other negative (so x # y as well)
DifferentSigns == args.a[1] * args.a[2] < 0

\* both arguments positive or both negative
SameSign == args.a[1] * args.a[2] > 0

\* C18 as stated: harmonic_mean_weighted and geometric_mean_weighted both
\* raise a signed-value error whenever x and y have different signs and
\* x # y, for every ratio, and raise nothing when they have the same sign.
C18_BothRaiseOnDifferentSigns ==
    MeanCalled =>
        /\ DifferentSigns => ret = ValueError
        /\ SameSign => ~IsRaise(ret)

\* C18: geometric_mean_weighted raises a signed-value error whenever x and y
\* have different signs and x # y, for every ratio; harmonic_mean_weighted
\* never raises a signed-value error; both raise nothing when x and y have
\* the same sign.
C18_GeometricRaisesOnDifferentSigns ==
    MeanCalled =>
        /\ (args.f = "geometric_mean_weighted" /\ DifferentSigns)
               => ret = ValueError
        /\ args.f = "harmonic_mean_weighted" => ret # ValueError
        /\ SameSign => ~IsRaise(ret)

C18_Witness ==
    /\ args.f = "geometric_mean_weighted"
    /\ args.a[1] > 0 /\ args.a[2] < 0
    /\ args.a[3] = PINF
    /\ ret = ValueError

\* ------------------------------------------------------------------ C19
\* number of items with row label r and column label c
CellCount(r, c) ==
    Cardinality({i \in 1..Len(labels_true) :
                    labels_true[i] = r /\ labels_pred[i] = c})

RowLabels == {labels_true[i] : i \in 1..Len(labels_true)}

ColLabels == {labels_pred[i] : i \in 1..Len(labels_pred)}

SplitJoinFormula ==
    2 * Len(labels_true)
    - SumF([r \in RowLabels |-> Max({CellCount(r, c) : c \in ColLabels})])
    - SumF([c \in ColLabels |-> Max({CellCount(r, c) : r \in RowLabels})])

SplitJoinExample == ct = from_partitions(SplitJoinP1, SplitJoinP2)

\* C19: split_join_distance() is twice the grand total minus the sum of each
\* row's largest cell minus the sum of each column's largest cell; for the
\* partitions of the docstring example it is 11.
C19_SplitJoinDistance ==
    last.call.m = "split_join_distance" =>
        /\ last.val = Int2F(SplitJoinFormula)
        /\ SplitJoinExample => last.val = Int2F(11)

C19_Witness ==
    /\ last.call.m = "split_join_distance"
    /\ SplitJoinExample
    /\ ct.grand_total = 12
    /\ last.val = Int2F(11)

\* ------------------------------------------------------------------ C20
\* the 2x2 matrix obtained by enumerating the item pairs
PairMatrix ==
    ConfusionMatrix2(Cardinality({p \in Pairs : SameRow(p) /\ SameCol(p)}),
                     Cardinality({p \in Pairs : SameRow(p) /\ ~SameCol(p)}),
                     Cardinality({p \in Pairs : ~SameRow(p) /\ SameCol(p)}),
                     Cardinality({p \in Pairs : ~SameRow(p) /\ ~SameCol(p)}))

\* round(x, 3) of a finite non-negative value
Round3(x) == Num((2000 * x.n + x.d) \div (2 * x.d), 1000)

AriExample == labels_true = AriClasses /\ labels_pred = AriClusters

\* C20: adjusted_rand_score is kappa() of the pairwise co-association matrix
\* of the two labelings; for the docstring example that matrix is TP=7, FN=6,
\* FP=7, TN=25 and the score rounds to 0.313.
C20_AdjustedRandIsKappa ==
    last.call.m = "adjusted_rand_score" =>
        /\ last.val = kappa(PairMatrix)
        /\ AriExample =>
               /\ coassoc_compute(ct) = ConfusionMatrix2(7, 6, 7, 25)
               /\ PairMatrix = ConfusionMatrix2(7, 6, 7, 25)
               /\ Round3(last.val) = Num(313, 1000)

C20_Witness ==
    /\ last.call.m = "adjusted_rand_score"
    /\ AriExample
    /\ last.val = Num(266, 851)

\* ------------------------------------------------------------------ C21
\* C21: when the matrix has TP > 0, TN > 0 and FP = 0 (perfect homogeneity),
\* loevinger_coeff() is exactly 1.0 even with FN > 0; the same holds in the
\* dual case FN = 0, FP > 0.
C21_LoevingerPerfectWhenOneSided ==
    (/\ Called({"loevinger_coeff"})
     /\ TP(cm) > 0 /\ TN(cm) > 0
     /\ FP(cm) = 0 \/ FN(cm) = 0)
        => cm_last.val = Int2F(1)

C21_Witness ==
    /\ Called({"loevinger_coeff"})
    /\ TP(cm) > 0 /\ TN(cm) > 0 /\ FP(cm) = 0 /\ FN(cm) > 1
    /\ cm_last.val = Int2F(1)

\* ------------------------------------------------------------------ C22
\* C22: after construction the table is read-only: no call changes the
\* cells, row_totals, col_totals or grand_total, and the only instance state
\* that changes is the coassoc_ slot, from empty to filled.
C22_ReadOnlyAfterConstruction ==
    [][/\ ct' = ct
       /\ _coassoc_' # _coassoc_ => (_coassoc_ = None /\ _coassoc_' # None)]_vars

\* the slot has been filled and a later call has returned a score
C22_Witness ==
    /\ _coassoc_ # None
    /\ last.call.m \in {"mutual_info_score", "split_join_distance", "get_score"}
    /\ last.val # None
    /\ ct.grand_total > 1

\* ------------------------------------------------------------------ C23
\* every point of every cluster, in input order, with its cluster's index
RECURSIVE PointsFrom(_, _)
PointsFrom(cluster_iter, i) ==
    IF i > Len(cluster_iter) THEN <<>>
    ELSE [j \in 1..Len(cluster_iter[i]) |->
             [cluster_idx |-> i, point |-> cluster_iter[i][j],
              in_positive_cluster |-> Len(cluster_iter[i]) > 1]]
         \o PointsFrom(cluster_iter, i + 1)

\* the point's class label or its cluster label is positive
HasPositiveLabel(x) == x.point.k = "pos" \/ x.in_positive_cluster

\* the points the call has to emit
Emitted ==
    IF args.a[2] THEN PointsFrom(args.a[1], 1)
    ELSE SelectSeq(PointsFrom(args.a[1], 1), HasPositiveLabel)

AddCalls == {added[i] : i \in DOMAIN added}

LabelsAdded == {c.registered : c \in AddCalls}

KeySetOf(lbl) == UNION {c.s : c \in {d \in AddCalls : d.registered = lbl}}

SameCluster(a, b) == \E blk \in get_clusters : a \in blk /\ b \in blk

BucketLabels(k) == {hash_map[k][i].label : i \in DOMAIN hash_map[k]}

\* C24: after any sequence of add_set calls on a Cluster without signer and
\* with the always-accepting sketch_sim_fn, get_clusters() is a partition of
\* exactly the labels add_set registered so far, two labels whose key sets
\* share a key are in one cluster, and the labels of one hash_map bucket
\* are in one union-find set.
C24_ClustersPartitionLabels ==
    /\ UNION get_clusters = LabelsAdded
    /\ \A b1, b2 \in get_clusters : b1 # {} /\ (b1 # b2 => b1 \cap b2 = {})
    /\ \A a, b \in LabelsAdded :
           KeySetOf(a) \cap KeySetOf(b) # {} => SameCluster(a, b)
    /\ \A k \in DOMAIN hash_map :
           \A a, b \in BucketLabels(k) : SameCluster(a, b)

\* three calls: two unrelated labels, then a set that shares a key with each
C24_Witness ==
    /\ Len(added) = 3
    /\ Cardinality(LabelsAdded) = 3
    /\ Cardinality(get_clusters) = 1
    /\ added[1].s \cap added[2].s = {}
    /\ added[1].s # {} /\ added[2].s # {}
    /\ \E k \in DOMAIN hash_map : Len(hash_map[k]) = 2


\* C27: add_set(s, label) registers the item under the label the caller
\* supplied, for every supplied label including 0, and under the set s
\* only when no label was supplied.
C27_RegisteredUnderSuppliedLabel ==
    \A c \in AddCalls :
        /\ c.registered \in uf_items(union_find)
        /\ c.registered = IF c.label = None THEN SetLabel(c.s) ELSE c.label


\* C25: on a 2x2 table whose two row margins are non-zero, informedness()
\* equals TPR() - FPR(); on one whose two column margins are non-zero,
\* markedness() equals PPV() + NPV() - 1.
C25_InformednessMarkednessAsRates ==
    /\ (/\ Called({"informedness"})
        /\ TP(cm) + FN(cm) # 0 /\ FP(cm) + TN(cm) # 0)
           => cm_last.val = FSub(TPR(cm), FPR(cm))
    /\ (/\ Called({"markedness"})
        /\ TP(cm) + FP(cm) # 0 /\ FN(cm) + TN(cm) # 0)
           => cm_last.val = FSub(FAdd(PPV(cm), NPV(cm)), Int2F(1))

\* an unbalanced table on which the two coefficients differ
C25_Witness ==
    /\ Called({"informedness"})
    /\ TP(cm) = 2 /\ FN(cm) = 1 /\ FP(cm) = 0 /\ TN(cm) = 3
    /\ cm_last.val = FSub(TPR(cm), FPR(cm))
    /\ cm_last.val = Num(2, 3)
    /\ markedness(cm) = Num(3, 4)


\* C26: get_score(name) runs the table's own method for a name the RxC
\* table defines (entropy_metrics, chisq_score, mutual_info_score,
\* split_join_distance) and the coassoc_ matrix's method only for a name the
\* table lacks (kappa, jaccard_coeff), although the matrix defines the
\* table-level names as well.
C26_GetScoreTableFirst ==
    /\ \A name \in {"entropy_metrics", "chisq_score", "mutual_info_score",
                    "split_join_distance"} :
           name \in MatrixAttrs /\ get_score_target(name).on = "self"
    /\ \A name \in {"kappa", "jaccard_coeff"} :
           get_score_target(name).on = "coassoc_"
    /\ (last.call.m = "get_score" /\ last.val # None) =>
           last.val =
               CASE last.call.arg \in {"mutual_info_score", "split_join_distance"}
                        -> TableMethod(last.call.arg, ct, last.coassoc)
                 [] last.call.arg \in {"kappa", "jaccard_coeff"}
                        -> MatrixMethod(last.call.arg, last.coassoc)
                 [] OTHER -> last.val

\* a table on which the matrix's own split_join_distance is another number
C26_Witness ==
    /\ last.call = [m |-> "get_score", arg |-> "split_join_distance"]
    /\ last.val = split_join_distance(ct)
    /\ last.val # Int2F(0)
    /\ _coassoc_ # None
    /\ last.val # MatrixMethod("split_join_distance", _coassoc_)


\* ------------------------------------------------------------------ C28
\* what the two passes of clustering_aul_score compute for the argument
AulData == aggregate_tuples(sorted_by_size(sortable(args.a)))

AulAcc ==
    second_pass(AulData, [bin_height |-> Int2F(0), bin_right_edge |-> 0,
                          aul_score |-> Int2F(0)])

\* C28: for every finite collection of clusters and every boolean is_pos
\* the two assertions of clustering_aul_score hold: the positives are at
\* most max_horizontal, and after the second pass bin_right_edge equals
\* max_horizontal.
C28_AssertionsHold ==
    AulCalled =>
        /\ ret # AssertionError
        /\ total_pos(AulData) <= max_horizontal(AulData)
        /\ AulAcc.bin_right_edge = max_horizontal(AulData)

\* clusters of two sizes, some points positive, both passes run to the end
C28_Witness ==
    /\ AulCalled
    /\ Cardinality(Sizes) > 1
    /\ total_pos(AulData) > 1
    /\ total_pos(AulData) < max_horizontal(AulData)
    /\ AulAcc.bin_right_edge = max_horizontal(AulData)
    /\ ret.k = "returned" /\ IsNum(ret.v)

\* ------------------------------------------------------------------ C29
\* C29: a value clustering_aul_score returns that is not NaN lies in
\* [0, 1]: the accumulated sum of bin_height * bin_width never exceeds
\* max_vertical * max_horizontal.
C29_ScoreInUnitInterval ==
    (AulCalled /\ ret.k = "returned" /\ ret.v # NaN) =>
        /\ IsNum(ret.v)
        /\ ~FGreater(Int2F(0), ret.v)
        /\ ~FGreater(ret.v, Int2F(1))
        /\ ~FGreater(AulAcc.aul_score,
                     Int2F(max_vertical(AulData) * max_horizontal(AulData)))

\* a score strictly between the two ends of the interval
C29_Witness ==
    /\ AulCalled
    /\ ret.k = "returned" /\ IsNum(ret.v)
    /\ FGreater(ret.v, Int2F(0))
    /\ FGreater(Int2F(1), ret.v)
    /\ Len(args.a) > 1


\* ------------------------------------------------------------------ C30
\* labels_pred is labels_true with its labels renamed one-to-one
SameUpToRenaming ==
    /\ Len(labels_true) = Len(labels_pred)
    /\ \A i, j \in 1..Len(labels_true) :
           (labels_true[i] = labels_true[j]) <=> (labels_pred[i] = labels_pred[j])

\* all pairs co-grouped, no pair co-grouped, or fewer than two items
DegeneratePairs ==
    \/ Len(labels_true) < 2
    \/ \A p \in Pairs : SameRow(p)
    \/ \A p \in Pairs : ~SameRow(p)

\* C30: for two labelings that are identical, or equal up to a renaming of
\* the labels, the co-association matrix has FN = FP = 0 and
\* adjusted_rand_score returns exactly 1.0, unless the matrix is degenerate
\* (all pairs co-grouped, no pair co-grouped, fewer than two items), in
\* which case it returns NaN.
C30_IdenticalLabelingsScoreOne ==
    SameUpToRenaming =>
        /\ FN(coassoc_compute(ct)) = 0 /\ FP(coassoc_compute(ct)) = 0
        /\ _coassoc_ # None => FN(_coassoc_) = 0 /\ FP(_coassoc_) = 0
        /\ last.call.m = "adjusted_rand_score" =>
               last.val = IF DegeneratePairs THEN NaN ELSE Int2F(1)

\* three items in two groups, the two labels exchanged in labels_pred
C30_Witness ==
    /\ SameUpToRenaming
    /\ labels_true # labels_pred
    /\ ~DegeneratePairs
    /\ TP(coassoc_compute(ct)) > 0 /\ TN(coassoc_compute(ct)) > 0
    /\ last.call.m = "adjusted_rand_score"
    /\ last.val = Int2F(1)

====
